---- MODULE Spec2Model ----
(***************************************************************************)
(* A model of APP.py: the Streamlit stock-analysis script.  One run of the *)
(* script is a walk through the positions of pc; the market-data provider  *)
(* (yfinance) is the environment, whose responses are drawn from bounded   *)
(* families of frames.  Prices are exact rationals; the float values that  *)
(* are not numbers (infinities, the NaN of an invalid operation, the       *)
(* missing-value marker of pandas) are kept apart by a tag.                *)
(***************************************************************************)
EXTENDS Integers, Sequences, FiniteSets, TLC

(***************************************************************************)
(* Bounds of the model.                                                    *)
(***************************************************************************)
\* longest daily series of the short-term analysis
MaxLen == 21
\* longest series of the long-term analysis below the SMA windows
MaxLongLen == 4
\* longest intraday series
MaxIntraLen == 4
\* rows 1..MaxSpike may carry a one-row price spike
MaxSpike == 3
\* the benchmark's trading days are a subset of 1..MaxBenchDay
MaxBenchDay == 4

(***************************************************************************)
(* Program constants.                                                      *)
(***************************************************************************)
SMA_SHORT == 10
SMA_MID == 20
SMA_50 == 50
SMA_100 == 100
SMA_200 == 200
RSI_PERIOD == 14
EMA_SPAN == 9
DAYS_PER_YEAR == 365

(***************************************************************************)
(* Float values.  k = "num": the rational n/d in lowest terms, d > 0;      *)
(* k = "inf": the infinity of sign n; k = "nan": the result of an invalid  *)
(* operation (0/0, inf - inf); k = "na": a missing entry (no observation,  *)
(* or a window that is not full).  pandas stores the last two as the same  *)
(* float; the tag records where the value came from.                       *)
(***************************************************************************)
RECURSIVE GCD(_, _)
GCD(a, b) == IF b = 0 THEN a ELSE GCD(b, a % b)

Abs(x) == IF x < 0 THEN -x ELSE x

Sgn(x) == IF x < 0 THEN -1 ELSE IF x > 0 THEN 1 ELSE 0

NA == [k |-> "na", n |-> 0, d |-> 1]

NaN == [k |-> "nan", n |-> 0, d |-> 1]

Inf(s) == [k |-> "inf", n |-> s, d |-> 1]

FNum(n, d) ==
    LET g == GCD(Abs(n), Abs(d))
        s == IF d < 0 THEN -1 ELSE 1
    IN  [k |-> "num", n |-> s * (n \div g), d |-> s * (d \div g)]

F(n) == [k |-> "num", n |-> n, d |-> 1]

IsNum(a) == a.k = "num"

isna(a) == a.k \in {"na", "nan"}

\* the result of an operation one of whose operands is not a float number
Propagate(a, b) == IF a.k = "nan" \/ b.k = "nan" THEN NaN ELSE NA

FNeg(a) ==
    IF isna(a) THEN a ELSE [a EXCEPT !.n = -a.n]

FAdd(a, b) ==
    IF isna(a) \/ isna(b) THEN Propagate(a, b)
    ELSE IF a.k = "inf" /\ b.k = "inf" THEN (IF a.n = b.n THEN a ELSE NaN)
    ELSE IF a.k = "inf" THEN a
    ELSE IF b.k = "inf" THEN b
    ELSE LET g == GCD(a.d, b.d)
         IN  FNum(a.n * (b.d \div g) + b.n * (a.d \div g), a.d * (b.d \div g))

FSub(a, b) == FAdd(a, FNeg(b))

FMul(a, b) ==
    IF isna(a) \/ isna(b) THEN Propagate(a, b)
    ELSE IF a.k = "inf" \/ b.k = "inf"
         THEN (IF a.n = 0 \/ b.n = 0 THEN NaN ELSE Inf(Sgn(a.n) * Sgn(b.n)))
    ELSE LET g1 == GCD(Abs(a.n), b.d)
             g2 == GCD(Abs(b.n), a.d)
         IN  FNum((a.n \div g1) * (b.n \div g2), (a.d \div g2) * (b.d \div g1))

FDiv(a, b) ==
    IF isna(a) \/ isna(b) THEN Propagate(a, b)
    ELSE IF a.k = "inf" THEN (IF b.k = "inf" THEN NaN
                              ELSE Inf(IF b.n < 0 THEN -a.n ELSE a.n))
    ELSE IF b.k = "inf" THEN F(0)
    ELSE IF b.n = 0 THEN (IF a.n = 0 THEN NaN ELSE Inf(Sgn(a.n)))
    ELSE FMul(a, [k |-> "num", n |-> Sgn(b.n) * b.d, d |-> Abs(b.n)])

\* a > b and a < b of floats: false when either side is missing or NaN
FGt(a, b) ==
    /\ ~isna(a) /\ ~isna(b)
    /\ IF a.k = "inf" THEN a.n = 1 /\ b # a
       ELSE IF b.k = "inf" THEN b.n = -1
       ELSE a.n * b.d > b.n * a.d

FLt(a, b) == FGt(b, a)

FLe(a, b) == ~isna(a) /\ ~isna(b) /\ ~FGt(a, b)

(***************************************************************************)
(* Series: sequences of float values, one per row of a frame.              *)
(***************************************************************************)
\* RollStep with the leaving value removed one row late: a window of w + 1
RollStepWide(s, w, st, i) ==
    LET new == s[i]
        old == IF i > w + 1 THEN s[i - w - 1] ELSE NA
        sum1 == IF isna(new) THEN st.sum ELSE FAdd(st.sum, new)
        sum2 == IF isna(old) THEN sum1 ELSE FSub(sum1, old)
        n2 == st.nobs + (IF isna(new) THEN 0 ELSE 1)
                      - (IF isna(old) THEN 0 ELSE 1)
        val == IF n2 >= w THEN FDiv(sum2, F(n2)) ELSE NA
    IN  [sum |-> sum2, nobs |-> n2, out |-> Append(st.out, val)]

\* Series.rolling(window).mean(): one pass that adds the entering value and
\* removes the leaving one; min_periods defaults to the window, and only
\* observations that are not missing count.
RollStep(s, w, st, i) ==
    LET new == s[i]
        old == IF i > w THEN s[i - w] ELSE NA
        sum1 == IF isna(new) THEN st.sum ELSE FAdd(st.sum, new)
        sum2 == IF isna(old) THEN sum1 ELSE FSub(sum1, old)
        n2 == st.nobs + (IF isna(new) THEN 0 ELSE 1)
                      - (IF isna(old) THEN 0 ELSE 1)
        val == IF n2 >= w THEN FDiv(sum2, F(n2)) ELSE NA
    IN  [sum |-> sum2, nobs |-> n2, out |-> Append(st.out, val)]

\* the pass over rows lo..hi from state st.  The rows are halved, and the
\* first half is complete (its state compared with itself) before the second
\* begins, so that the evaluation stays shallow on long series.
RECURSIVE RollRows(_, _, _, _, _)
RollRows(s, w, st, lo, hi) ==
    IF lo > hi THEN st
    ELSE IF lo = hi THEN RollStep(s, w, st, lo)
    ELSE LET mid == (lo + hi) \div 2
             half == RollRows(s, w, st, lo, mid)
         IN  IF half = half THEN RollRows(s, w, half, mid + 1, hi) ELSE half

RollingMean(s, w) ==
    RollRows(s, w, [sum |-> F(0), nobs |-> 0, out |-> <<>>], 1, Len(s)).out

\* Series.diff(): the first entry has no predecessor and is missing
Diff(s) == [i \in 1..Len(s) |-> IF i = 1 THEN NA ELSE FSub(s[i], s[i - 1])]

\* delta.where(delta > 0, 0): a comparison with a missing value is false,
\* so a missing delta is replaced by 0 as well
Gain(delta) ==
    [i \in 1..Len(delta) |-> IF FGt(delta[i], F(0)) THEN delta[i] ELSE F(0)]

\* Loss without the leading minus: delta.where(delta < 0, 0)
LossKeepsSign(delta) ==
    [i \in 1..Len(delta) |-> IF FLt(delta[i], F(0)) THEN delta[i] ELSE F(0)]

\* -delta.where(delta < 0, 0)
Loss(delta) ==
    [i \in 1..Len(delta) |->
        FNeg(IF FLt(delta[i], F(0)) THEN delta[i] ELSE F(0))]

\* avg_gain / avg_loss, row by row, with no test of the divisor
RelativeStrength(ag, al) == [i \in 1..Len(ag) |-> FDiv(ag[i], al[i])]

\* 100 - (100 / (1 + rs))
RSIOf(rsv) ==
    [i \in 1..Len(rsv) |->
        FSub(F(100), FDiv(F(100), FAdd(F(1), rsv[i])))]

\* Series.ewm(span).mean() with adjust=True: the weighted mean of all values
\* so far with weights (1 - alpha)^j, alpha = 2 / (span + 1)
EwmStep(s, decay, st, i) ==
    LET num1 == FAdd(s[i], FMul(decay, st.num))
        den1 == FAdd(F(1), FMul(decay, st.den))
    IN  [num |-> num1, den |-> den1, out |-> Append(st.out, FDiv(num1, den1))]

RECURSIVE EwmRows(_, _, _, _, _)
EwmRows(s, decay, st, lo, hi) ==
    IF lo > hi THEN st
    ELSE IF lo = hi THEN EwmStep(s, decay, st, lo)
    ELSE LET mid == (lo + hi) \div 2
             half == EwmRows(s, decay, st, lo, mid)
         IN  IF half = half THEN EwmRows(s, decay, half, mid + 1, hi) ELSE half

EwmMean(s, span) ==
    EwmRows(s, FSub(F(1), FNum(2, span + 1)),
            [num |-> F(0), den |-> F(0), out |-> <<>>], 1, Len(s)).out

\* Series.pct_change(): s[i] / s[i-1] - 1, missing in the first row
PctChange(s) ==
    [i \in 1..Len(s) |->
        IF i = 1 THEN NA ELSE FSub(FDiv(s[i], s[i - 1]), F(1))]

\* the sum of rows lo..hi of s
RECURSIVE FSumRows(_, _, _)
FSumRows(s, lo, hi) ==
    IF lo > hi THEN F(0)
    ELSE IF lo = hi THEN s[lo]
    ELSE FAdd(FSumRows(s, lo, (lo + hi) \div 2),
              FSumRows(s, (lo + hi) \div 2 + 1, hi))

FSum(s) == FSumRows(s, 1, Len(s))

\* one entry of DataFrame.cov() (min_periods 1, ddof 1) over the rows where
\* both columns are observed: NaN with fewer than two such rows
Cov(x, y) ==
    LET obs == {i \in 1..Len(x) : ~isna(x[i]) /\ ~isna(y[i])}
        m == Cardinality(obs)
        xs == [i \in 1..Len(x) |-> IF i \in obs THEN x[i] ELSE F(0)]
        ys == [i \in 1..Len(x) |-> IF i \in obs THEN y[i] ELSE F(0)]
        mx == FDiv(FSum(xs), F(m))
        my == FDiv(FSum(ys), F(m))
        pr == [i \in 1..Len(x) |->
                 IF i \in obs THEN FMul(FSub(x[i], mx), FSub(y[i], my))
                 ELSE F(0)]
    IN  IF m < 1 THEN NaN
        ELSE IF m - 1 = 0 THEN NaN
        ELSE FDiv(FSum(pr), F(m - 1))

(***************************************************************************)
(* Frames: a DataFrame is its column labels, its index (timestamps, in     *)
(* days) and one series per column.  A label is a tuple of its levels: one *)
(* level for a flat index, two (field, ticker) for a MultiIndex.           *)
(***************************************************************************)
EmptyDataFrame == [columns |-> <<>>, index |-> <<>>, values |-> <<>>]

IsEmpty(df) == Len(df.index) = 0 \/ Len(df.columns) = 0

IsMultiIndex(df) == Len(df.columns) > 0 /\ Len(df.columns[1]) > 1

HasCol(df, name) == \E j \in 1..Len(df.columns) : df.columns[j][1] = name

\* df[name]
Col(df, name) ==
    df.values[CHOOSE j \in 1..Len(df.columns) : df.columns[j][1] = name]

\* df[name] = series
SetCol(df, name, s) ==
    IF HasCol(df, name)
    THEN [df EXCEPT !.values[CHOOSE j \in 1..Len(df.columns) :
                                 df.columns[j][1] = name] = s]
    ELSE [df EXCEPT !.columns = Append(@, <<name>>),
                    !.values = Append(@, s)]

\* the rows lo..hi, in order, that are in the set kept
RECURSIVE RowsIn(_, _, _)
RowsIn(kept, lo, hi) ==
    IF lo > hi THEN <<>>
    ELSE IF lo = hi THEN (IF lo \in kept THEN <<lo>> ELSE <<>>)
    ELSE RowsIn(kept, lo, (lo + hi) \div 2)
         \o RowsIn(kept, (lo + hi) \div 2 + 1, hi)

TakeRows(df, rows) ==
    [df EXCEPT !.index = [r \in 1..Len(rows) |-> df.index[rows[r]]],
               !.values = [j \in 1..Len(df.values) |->
                              [r \in 1..Len(rows) |-> df.values[j][rows[r]]]]]

\* df.dropna(subset=names): a new frame without the rows that miss a value
\* in one of the named columns
DropnaSubset(df, names) ==
    LET full == {i \in 1..Len(df.index) :
                    \A j \in 1..Len(df.columns) :
                        df.columns[j][1] \in names => ~isna(df.values[j][i])}
    IN  TakeRows(df, RowsIn(full, 1, Len(df.index)))

\* Dropna as df.dropna(how='all'): without the rows that miss every value
DropnaAll(df) ==
    LET some == {i \in 1..Len(df.index) :
                    \E j \in 1..Len(df.columns) : ~isna(df.values[j][i])}
    IN  TakeRows(df, RowsIn(some, 1, Len(df.index)))

\* df.dropna(): without the rows that miss any value
Dropna(df) ==
    LET full == {i \in 1..Len(df.index) :
                    \A j \in 1..Len(df.columns) : ~isna(df.values[j][i])}
    IN  TakeRows(df, RowsIn(full, 1, Len(df.index)))

\* pd.concat([a, b], axis=1) of two series with sorted indexes: one row per
\* timestamp of either index, in ascending order, a missing value where a
\* series has no entry for the timestamp
OuterStep(ai, av, bi, bv, st) ==
    LET i == st.i
        j == st.j
        add(t, x, y, i1, j1) ==
            [i |-> i1, j |-> j1, index |-> Append(st.index, t),
             values |-> <<Append(st.values[1], x), Append(st.values[2], y)>>]
    IN  IF i > Len(ai) /\ j > Len(bi) THEN st
        ELSE IF j > Len(bi) \/ (i <= Len(ai) /\ ai[i] < bi[j])
             THEN add(ai[i], av[i], NA, i + 1, j)
        ELSE IF i > Len(ai) \/ bi[j] < ai[i]
             THEN add(bi[j], NA, bv[j], i, j + 1)
        ELSE add(ai[i], av[i], bv[j], i + 1, j + 1)

\* steps lo..hi of the merge, from state st
RECURSIVE OuterRows(_, _, _, _, _, _, _)
OuterRows(ai, av, bi, bv, st, lo, hi) ==
    IF lo > hi THEN st
    ELSE IF lo = hi THEN OuterStep(ai, av, bi, bv, st)
    ELSE LET mid == (lo + hi) \div 2
             half == OuterRows(ai, av, bi, bv, st, lo, mid)
         IN  IF half = half THEN OuterRows(ai, av, bi, bv, half, mid + 1, hi)
             ELSE half

Outer(ai, av, bi, bv) ==
    OuterRows(ai, av, bi, bv,
              [i |-> 1, j |-> 1, index |-> <<>>, values |-> << <<>>, <<>> >>],
              1, Len(ai) + Len(bi))

\* combined = pd.concat(...); combined.columns = ['Stock', 'Index']
Concat(a, b) ==
    LET o == Outer(a.index, Col(a, "Close"), b.index, Col(b, "Close"))
    IN  [columns |-> << <<"Stock">>, <<"Index">> >>,
         index |-> o.index, values |-> o.values]

(***************************************************************************)
(* The provider's responses.  A response is an exception or a frame with   *)
(* the columns Open, High, Low, Close, Volume, one row per trading day.    *)
(***************************************************************************)
Fields == <<"Open", "High", "Low", "Close", "Volume">>

Kinds == {"flat", "up", "down", "zig"}

\* close of row i of a series of n rows; row spike, if any, is 3 higher
CloseAt(kind, n, spike, i) ==
    (CASE kind = "flat" -> 2
       [] kind = "up"   -> 1 + i
       [] kind = "down" -> n + 2 - i
       [] kind = "zig"  -> 2 + 2 * ((i + 1) % 2))
    + (IF i = spike THEN 3 ELSE 0)

\* trading day of row i: with a gap, day 3 is not a trading day
DayOf(gap, i) == IF gap /\ i > 2 THEN i + 1 ELSE i

Labels(levels, ticker) ==
    [j \in 1..Len(Fields) |->
        IF levels = 2 THEN <<Fields[j], ticker>> ELSE <<Fields[j]>>]

PriceFrame(n, kind, spike, gap, levels, noOpen) ==
    LET close == [i \in 1..n |-> F(CloseAt(kind, n, spike, i))]
    IN  [columns |-> Labels(levels, "INFY.NS"),
         index |-> [i \in 1..n |-> DayOf(gap, i)],
         values |-> [j \in 1..Len(Fields) |->
                        IF Fields[j] = "Volume" THEN [i \in 1..n |-> F(0)]
                        ELSE IF Fields[j] = "Open" /\ noOpen
                             THEN [i \in 1..n |-> NA]
                        ELSE close]]

Raised == [outcome |-> "raise", frame |-> EmptyDataFrame]

Returned(df) == [outcome |-> "ok", frame |-> df]

IntradayResponses ==
    {Raised, Returned(EmptyDataFrame)} \cup
    {Returned(PriceFrame(n, kind, 0, FALSE, levels, noOpen)) :
        n \in 0..MaxIntraLen, kind \in Kinds, levels \in {1, 2},
        noOpen \in BOOLEAN}

ShortResponses ==
    {Raised, Returned(EmptyDataFrame)} \cup
    {Returned(PriceFrame(n, kind, spike, FALSE, levels, FALSE)) :
        n \in 0..MaxLen, kind \in Kinds, spike \in 0..MaxSpike,
        levels \in {1, 2}}

\* the lengths at which an SMA window of the long-term analysis fills
WindowEdges == UNION {{w - 1, w, w + 1} : w \in {SMA_50, SMA_100, SMA_200}}

LongResponses ==
    {Raised, Returned(EmptyDataFrame)} \cup
    {Returned(PriceFrame(n, kind, spike, gap, levels, FALSE)) :
        n \in 0..MaxLongLen, kind \in Kinds, spike \in 0..MaxSpike,
        gap \in BOOLEAN, levels \in {1, 2}} \cup
    {Returned(PriceFrame(n, kind, 0, FALSE, levels, FALSE)) :
        n \in WindowEdges, kind \in Kinds \ {"down"}, levels \in {1, 2}}

BenchKinds == {"flat", "up", "geo", "holes"}

\* the benchmark's close on a day; with holes, even days have no close
BenchCloseAt(kind, day) ==
    CASE kind = "flat"  -> F(5)
      [] kind = "up"    -> F(day)
      [] kind = "geo"   -> F(2 ^ day)
      [] kind = "holes" -> IF day % 2 = 0 THEN NA ELSE F(day)

RECURSIVE Ascending(_)
Ascending(S) ==
    IF S = {} THEN <<>>
    ELSE LET m == CHOOSE x \in S : \A y \in S : x <= y
         IN  <<m>> \o Ascending(S \ {m})

BenchFrame(days, kind, levels) ==
    LET idx == Ascending(days)
        close == [i \in 1..Len(idx) |-> BenchCloseAt(kind, idx[i])]
    IN  [columns |-> Labels(levels, "^NSEI"),
         index |-> idx,
         values |-> [j \in 1..Len(Fields) |->
                        IF Fields[j] = "Volume"
                        THEN [i \in 1..Len(idx) |-> F(0)]
                        ELSE close]]

BenchResponses(levels) ==
    {Raised} \cup
    {Returned(BenchFrame(days, kind, levels)) :
        days \in SUBSET (1..MaxBenchDay), kind \in BenchKinds}

(***************************************************************************)
(* The state of one run of the script.                                     *)
(***************************************************************************)
VARIABLES
    pc,             \* the position of the run in the script
    analysis_type,  \* the selectbox's value
    response,       \* what the provider answered to the primary download
    data,           \* the frame the analysis works on
    ui,             \* what the run has put on the page, in order
    delta, gain, loss, avg_gain, avg_loss, rs, rsi,
                    \* the series of the RSI computation
    cagr,           \* the outcome of the CAGR step
    index_data,     \* get_data's result for the benchmark
    combined,       \* the aligned stock and benchmark closes
    cov_matrix,     \* combined.pct_change().cov()
    beta            \* cov_matrix[0, 1] / cov_matrix[1, 1]

vars == <<pc, analysis_type, response, data, ui, delta, gain, loss, avg_gain,
          avg_loss, rs, rsi, cagr, index_data, combined, cov_matrix, beta>>

rsiVars == <<delta, gain, loss, avg_gain, avg_loss, rs, rsi>>

longVars == <<cagr, index_data, combined, cov_matrix, beta>>

NoResponse == [outcome |-> "none", frame |-> EmptyDataFrame]

NoCagr == [k |-> "unset", base |-> NA, exponent |-> NA]

Init ==
    /\ pc = "idle"
    /\ analysis_type = "Intraday"
    /\ response = NoResponse
    /\ data = EmptyDataFrame
    /\ ui = <<>>
    /\ delta = <<>> /\ gain = <<>> /\ loss = <<>>
    /\ avg_gain = <<>> /\ avg_loss = <<>> /\ rs = <<>> /\ rsi = <<>>
    /\ cagr = NoCagr
    /\ index_data = EmptyDataFrame
    /\ combined = EmptyDataFrame
    /\ cov_matrix = << <<NA, NA>>, <<NA, NA>> >>
    /\ beta = NA

\* get_data: the download without its incomplete rows, or an empty frame
\* with no columns when the download raises
get_data(resp) ==
    IF resp.outcome = "raise" THEN EmptyDataFrame ELSE Dropna(resp.frame)

\* plot_candlestick with the incomplete rows dropped from the frame itself:
\* data.dropna(subset=..., inplace=True)
plot_candlestick_inplace(df) ==
    LET flat == IF IsMultiIndex(df)
                THEN [df EXCEPT !.columns =
                         [j \in 1..Len(df.columns) |-> <<df.columns[j][1]>>]]
                ELSE df
        candlestick_data == DropnaSubset(flat, {"Open", "High", "Low", "Close"})
    IN  [data |-> candlestick_data,
         shown |-> IF IsEmpty(candlestick_data)
                   THEN <<"warning:no candlestick data">>
                   ELSE <<"subheader:candlestick", "plotly_chart:candlestick">>]

\* plot_candlestick: the frame as the call leaves it, and what it shows
plot_candlestick(df) ==
    LET flat == IF IsMultiIndex(df)
                THEN [df EXCEPT !.columns =
                         [j \in 1..Len(df.columns) |-> <<df.columns[j][1]>>]]
                ELSE df
        candlestick_data == DropnaSubset(flat, {"Open", "High", "Low", "Close"})
    IN  [data |-> flat,
         shown |-> IF IsEmpty(candlestick_data)
                   THEN <<"warning:no candlestick data">>
                   ELSE <<"subheader:candlestick", "plotly_chart:candlestick">>]

\* the "Run Analysis" button, up to the call of the analysis
RunAnalysis ==
    /\ pc = "idle"
    /\ \E type \in {"Intraday", "Short Term", "Long Term"},
          start_date \in 0..1, end_date \in 0..1 :
          /\ analysis_type' = type
          /\ IF type # "Intraday" /\ start_date >= end_date
             THEN /\ ui' = Append(ui, "warning:start date must be earlier")
                  /\ pc' = "done"
             ELSE /\ ui' = ui
                  /\ pc' = type
    /\ UNCHANGED <<response, data, rsiVars, longVars>>

\* intraday_analysis, to the line chart
IntradayFetch ==
    /\ pc = "Intraday"
    /\ \E resp \in IntradayResponses :
          /\ response' = resp
          /\ LET head == ui \o <<"subheader:intraday", "warning:latest day only">>
             IN  IF resp.outcome = "raise"
                 THEN /\ ui' = Append(head, "exception:download")
                      /\ pc' = "crashed"
                      /\ data' = data
                 ELSE IF IsEmpty(resp.frame) \/ ~HasCol(resp.frame, "Close")
                 THEN /\ ui' = Append(head, "error:no intraday data")
                      /\ pc' = "finish"
                      /\ data' = resp.frame
                 ELSE /\ ui' = Append(head, "line_chart:Close")
                      /\ pc' = "intraday_candlestick"
                      /\ data' = resp.frame
    /\ UNCHANGED <<analysis_type, rsiVars, longVars>>

IntradayCandlestick ==
    /\ pc = "intraday_candlestick"
    /\ data' = plot_candlestick(data).data
    /\ ui' = ui \o plot_candlestick(data).shown
    /\ pc' = "intraday_ema"
    /\ UNCHANGED <<analysis_type, response, rsiVars, longVars>>

IntradayEMA ==
    /\ pc = "intraday_ema"
    /\ data' = SetCol(data, "EMA_9", EwmMean(Col(data, "Close"), EMA_SPAN))
    /\ ui' = ui \o <<"write:9-period EMA", "pyplot:Close,EMA_9">>
    /\ pc' = "finish"
    /\ UNCHANGED <<analysis_type, response, rsiVars, longVars>>

\* the download of short_term_analysis and long_term_analysis, to the
\* sample of the data: an exception and an empty frame both end the run
DailyFetch(responses, next) ==
    \E resp \in responses :
       /\ response' = resp
       /\ IF resp.outcome = "raise"
          THEN /\ ui' = ui \o <<"subheader:analysis", "error:fetching data">>
               /\ pc' = "stopped"
               /\ data' = data
          ELSE IF IsEmpty(resp.frame)
          THEN /\ ui' = ui \o <<"subheader:analysis", "error:no historical data">>
               /\ pc' = "stopped"
               /\ data' = resp.frame
          ELSE /\ ui' = ui \o <<"subheader:analysis", "write:sample data">>
               /\ pc' = next
               /\ data' = resp.frame

ShortFetch ==
    /\ pc = "Short Term"
    /\ DailyFetch(ShortResponses, "short_candlestick")
    /\ UNCHANGED <<analysis_type, rsiVars, longVars>>

ShortCandlestick ==
    /\ pc = "short_candlestick"
    /\ data' = plot_candlestick(data).data
    /\ ui' = ui \o plot_candlestick(data).shown
    /\ pc' = "short_sma"
    /\ UNCHANGED <<analysis_type, response, rsiVars, longVars>>

ShortSMA ==
    /\ pc = "short_sma"
    /\ LET d1 == SetCol(data, "SMA_10", RollingMean(Col(data, "Close"), SMA_SHORT))
       IN  data' = SetCol(d1, "SMA_20", RollingMean(Col(d1, "Close"), SMA_MID))
    /\ ui' = ui \o <<"write:SMA crossover", "pyplot:Close,SMA_10,SMA_20">>
    /\ pc' = "short_rsi"
    /\ UNCHANGED <<analysis_type, response, rsiVars, longVars>>

ShortRSI ==
    /\ pc = "short_rsi"
    /\ LET d == Diff(Col(data, "Close"))
           g == Gain(d)
           l == Loss(d)
           ag == RollingMean(g, RSI_PERIOD)
           al == RollingMean(l, RSI_PERIOD)
           r == RelativeStrength(ag, al)
       IN  /\ delta' = d /\ gain' = g /\ loss' = l
           /\ avg_gain' = ag /\ avg_loss' = al
           /\ rs' = r /\ rsi' = RSIOf(r)
    /\ ui' = ui \o <<"write:RSI", "pyplot:RSI">>
    /\ pc' = "finish"
    /\ UNCHANGED <<analysis_type, response, data, longVars>>

LongFetch ==
    /\ pc = "Long Term"
    /\ DailyFetch(LongResponses, "long_candlestick")
    /\ UNCHANGED <<analysis_type, rsiVars, longVars>>

LongCandlestick ==
    /\ pc = "long_candlestick"
    /\ data' = plot_candlestick(data).data
    /\ ui' = ui \o plot_candlestick(data).shown
    /\ pc' = "long_sma"
    /\ UNCHANGED <<analysis_type, response, rsiVars, longVars>>

LongSMA ==
    /\ pc = "long_sma"
    /\ LET d1 == SetCol(data, "SMA_50", RollingMean(Col(data, "Close"), SMA_50))
           d2 == SetCol(d1, "SMA_100", RollingMean(Col(d1, "Close"), SMA_100))
       IN  data' = SetCol(d2, "SMA_200", RollingMean(Col(d2, "Close"), SMA_200))
    /\ ui' = ui \o <<"write:SMA trend", "pyplot:Close,SMA_50,SMA_100,SMA_200">>
    /\ pc' = "long_cagr"
    /\ UNCHANGED <<analysis_type, response, rsiVars, longVars>>

\* CagrOf with the test years >= 0 in place of years > 0
CagrOfNonNegative(df) ==
    IF ~HasCol(df, "Close") \/ Len(df.index) = 0
    THEN [k |-> "exception", base |-> NA, exponent |-> NA]
    ELSE LET close == Col(df, "Close")
             start_price == close[1]
             end_price == close[Len(close)]
             years == FDiv(F(df.index[Len(df.index)] - df.index[1]),
                           F(DAYS_PER_YEAR))
         IN  IF FLe(F(0), years)
             THEN [k |-> "value", base |-> FDiv(end_price, start_price),
                   exponent |-> FDiv(F(1), years)]
             ELSE [k |-> "insufficient", base |-> NA, exponent |-> NA]

\* the CAGR block; cagr stands for base ^ exponent - 1, which is not
\* evaluated here: the power of a float is no rational
CagrOf(df) ==
    IF ~HasCol(df, "Close") \/ Len(df.index) = 0
    THEN [k |-> "exception", base |-> NA, exponent |-> NA]
    ELSE LET close == Col(df, "Close")
             start_price == close[1]
             end_price == close[Len(close)]
             years == FDiv(F(df.index[Len(df.index)] - df.index[1]),
                           F(DAYS_PER_YEAR))
         IN  IF FGt(years, F(0))
             THEN [k |-> "value", base |-> FDiv(end_price, start_price),
                   exponent |-> FDiv(F(1), years)]
             ELSE [k |-> "insufficient", base |-> NA, exponent |-> NA]

LongCAGR ==
    /\ pc = "long_cagr"
    /\ LET c == CagrOf(data)
       IN  /\ cagr' = c
           /\ ui' = Append(ui, CASE c.k = "value" -> "write:CAGR"
                                 [] c.k = "insufficient" ->
                                        "warning:insufficient duration for CAGR"
                                 [] OTHER -> "warning:unable to calculate CAGR")
    /\ pc' = "long_align"
    /\ UNCHANGED <<analysis_type, response, data, rsiVars, index_data,
                   combined, cov_matrix, beta>>

\* the benchmark download and the alignment; index_data['Close'] raises
\* KeyError on a frame with no Close column, and nothing catches it
LongAlign ==
    /\ pc = "long_align"
    /\ \E resp \in BenchResponses(Len(response.frame.columns[1])) :
          LET fetched == get_data(resp)
          IN  /\ index_data' = fetched
              /\ IF ~HasCol(fetched, "Close")
                 THEN /\ ui' = Append(ui, "exception:KeyError")
                      /\ pc' = "crashed"
                      /\ combined' = combined
                 ELSE /\ ui' = ui
                      /\ pc' = "long_beta"
                      /\ combined' = Dropna(Concat(data, fetched))
    /\ UNCHANGED <<analysis_type, response, data, rsiVars, cagr, cov_matrix,
                   beta>>

\* combined.pct_change().cov()
CovMatrix(df) ==
    LET s == PctChange(Col(df, "Stock"))
        x == PctChange(Col(df, "Index"))
    IN  << <<Cov(s, s), Cov(s, x)>>, <<Cov(x, s), Cov(x, x)>> >>

\* cov_matrix.iloc[0, 1] / cov_matrix.iloc[1, 1]
BetaOf(cov) == FDiv(cov[1][2], cov[2][2])

LongBeta ==
    /\ pc = "long_beta"
    /\ IF ~IsEmpty(combined)
       THEN LET cov == CovMatrix(combined)
            IN  /\ cov_matrix' = cov
                /\ beta' = BetaOf(cov)
                /\ ui' = Append(ui, "write:Beta")
       ELSE /\ ui' = Append(ui, "warning:could not calculate Beta")
            /\ UNCHANGED <<cov_matrix, beta>>
    /\ pc' = "finish"
    /\ UNCHANGED <<analysis_type, response, data, rsiVars, cagr, index_data,
                   combined>>

\* back in the script after the analysis returned; the radio shows its
\* first option, "Yes", in the run the button started
Finish ==
    /\ pc = "finish"
    /\ ui' = ui \o <<"success:analysis complete", "radio:satisfied",
                     "balloons", "write:hope you make the money">>
    /\ pc' = "done"
    /\ UNCHANGED <<analysis_type, response, data, rsiVars, longVars>>

Next ==
    \/ RunAnalysis
    \/ IntradayFetch \/ IntradayCandlestick \/ IntradayEMA
    \/ ShortFetch \/ ShortCandlestick \/ ShortSMA \/ ShortRSI
    \/ LongFetch \/ LongCandlestick \/ LongSMA \/ LongCAGR \/ LongAlign
    \/ LongBeta
    \/ Finish

Spec == Init /\ [][Next]_vars

(***************************************************************************)
(* Vocabulary of the properties.                                           *)
(***************************************************************************)
Range(s) == {s[i] : i \in DOMAIN s}

Charts ==
    {"line_chart:Close", "plotly_chart:candlestick", "pyplot:Close,EMA_9",
     "pyplot:Close,SMA_10,SMA_20", "pyplot:RSI",
     "pyplot:Close,SMA_50,SMA_100,SMA_200"}

Errors ==
    {"error:no intraday data", "error:fetching data", "error:no historical data"}

Indicators ==
    {"EMA_9", "SMA_10", "SMA_20", "SMA_50", "SMA_100", "SMA_200"}

\* the sum of the integer closes of rows lo..hi, by halves
RECURSIVE CloseSum(_, _, _)
CloseSum(close, lo, hi) ==
    IF lo > hi THEN 0
    ELSE IF lo = hi THEN close[lo].n
    ELSE CloseSum(close, lo, (lo + hi) \div 2)
         + CloseSum(close, (lo + hi) \div 2 + 1, hi)

\* column name of frame df is the simple moving average of window w of its
\* closes: same length, missing in the first w - 1 rows, and from row w on
\* the mean of the w closes that end at the row
IsSMA(df, name, w) ==
    LET close == Col(df, "Close")
        sma == Col(df, name)
    IN  /\ Len(sma) = Len(close)
        /\ \A r \in 1..Len(close) :
              IF r < w THEN sma[r] = NA
              ELSE /\ IsNum(sma[r])
                   /\ sma[r].n * w = CloseSum(close, r - w + 1, r) * sma[r].d

\* C1: every SMA column (windows 10 and 20 of the short-term analysis, 50,
\* 100 and 200 of the long-term analysis) has one entry per close, is
\* undefined in its first w - 1 rows, and from row w on holds the arithmetic
\* mean of the w closes ending at that row.
C1_SmaIsTrailingMean ==
    /\ pc = "short_rsi" =>
          IsSMA(data, "SMA_10", SMA_SHORT) /\ IsSMA(data, "SMA_20", SMA_MID)
    /\ pc = "long_cagr" =>
          /\ IsSMA(data, "SMA_50", SMA_50)
          /\ IsSMA(data, "SMA_100", SMA_100)
          /\ IsSMA(data, "SMA_200", SMA_200)

\* a series long enough for the 200-day window got a defined SMA_200, and
\* another got a defined SMA_20
C1_Witness ==
    \/ /\ pc = "long_cagr" /\ Len(data.index) > SMA_200
       /\ IsNum(Col(data, "SMA_200")[SMA_200 + 1])
       /\ Col(data, "Close")[1] # Col(data, "Close")[2]
    \/ /\ pc = "short_rsi" /\ Len(data.index) > SMA_MID
       /\ IsNum(Col(data, "SMA_20")[SMA_MID + 1])
       /\ Col(data, "Close")[1] # Col(data, "Close")[2]

\* the short-term analysis has computed and plotted its RSI
RsiDone ==
    /\ analysis_type = "Short Term" /\ pc \in {"finish", "done"}
    /\ "pyplot:RSI" \in Range(ui)

Closes == Col(data, "Close")

Flat(s) == \A i \in 1..Len(s) : s[i] = s[1]

StrictlyIncreasing(s) == \A i \in 2..Len(s) : FGt(s[i], s[i - 1])

\* C2 as stated: the RSI series has one entry per close and no value at
\* the indices below P (rows 1..P), none at index P - 1 in particular.
C2_UndefinedBelowPeriod ==
    RsiDone =>
        /\ Len(rsi) = Len(Closes)
        /\ \A r \in 1..Len(rsi) : r <= RSI_PERIOD => isna(rsi[r])

\* C3 as stated: for a flat close series longer than P the plotted RSI is
\* the missing marker at every index, never the NaN of 0/0 and never 100.
C3_FlatIsUndefined ==
    (RsiDone /\ Flat(Closes) /\ Len(Closes) > RSI_PERIOD) =>
        \A r \in 1..Len(rsi) : rsi[r] = NA

\* C4: for a strictly increasing close series longer than P, avg_loss is 0
\* wherever its window is full and RSI is exactly 100 at every index >= P;
\* for every series, every RSI value that is defined lies in [0, 100].
C4_IncreasingIsHundred ==
    RsiDone =>
        /\ (StrictlyIncreasing(Closes) /\ Len(Closes) > RSI_PERIOD) =>
              /\ \A r \in RSI_PERIOD..Len(rsi) : avg_loss[r] = F(0)
              /\ \A r \in (RSI_PERIOD + 1)..Len(rsi) : rsi[r] = F(100)
        /\ \A r \in 1..Len(rsi) :
              ~isna(rsi[r]) => FLe(F(0), rsi[r]) /\ FLe(rsi[r], F(100))

\* an increasing series with two full windows reached 100, and another
\* series has an RSI strictly between 0 and 100
C4_Witness ==
    /\ RsiDone
    /\ \/ /\ StrictlyIncreasing(Closes) /\ Len(Closes) > RSI_PERIOD + 1
          /\ rsi[RSI_PERIOD + 2] = F(100)
       \/ /\ Len(Closes) > RSI_PERIOD
          /\ FGt(rsi[RSI_PERIOD + 1], F(0))
          /\ FGt(F(100), rsi[RSI_PERIOD + 1])

\* the long-term analysis is past its CAGR block
CagrDone == cagr.k # "unset"

SpanDays == data.index[Len(data.index)] - data.index[1]

\* C5: the CAGR block yields a value exactly when the series has at least
\* two points and spans more than 0 days; the value is the power of
\* lastClose / firstClose whose exponent times years (days / 365) is 1;
\* otherwise a warning is shown, and in both cases the run goes on to the
\* beta step.
C5_CagrOnlyOverPositiveSpan ==
    /\ pc = "long_align" => CagrDone
    /\ CagrDone =>
          /\ cagr.k \in {"value", "insufficient"}
          /\ cagr.k = "value" <=> (Len(data.index) >= 2 /\ SpanDays > 0)
          /\ cagr.k = "value" =>
                /\ cagr.base = FNum(Closes[Len(Closes)].n, Closes[1].n)
                /\ FMul(cagr.exponent, FNum(SpanDays, DAYS_PER_YEAR)) = F(1)
                /\ "write:CAGR" \in Range(ui)
          /\ cagr.k = "insufficient" =>
                /\ "warning:insufficient duration for CAGR" \in Range(ui)
                /\ "write:CAGR" \notin Range(ui)
          /\ pc \in {"long_align", "long_beta", "finish", "done", "crashed"}

\* a single-point series got the warning and stands before the beta step;
\* a longer one got a value
C5_Witness ==
    /\ pc = "long_align"
    /\ \/ Len(data.index) = 1 /\ cagr.k = "insufficient"
       \/ Len(data.index) > 2 /\ cagr.k = "value" /\ cagr.base # F(1)

\* the long-term analysis is past its beta step
BetaDone ==
    /\ analysis_type = "Long Term" /\ pc \in {"finish", "done"}
    /\ CagrDone

\* the benchmark's returns over the aligned rows
IndexReturns ==
    LET x == PctChange(Col(combined, "Index"))
    IN  [i \in 1..(Len(x) - 1) |-> x[i + 1]]

\* C6 as stated: with no returns after differencing (no aligned row or one)
\* or with benchmark returns that are all equal (zero variance), beta is
\* the warning and not a displayed value; a displayed beta is a number.
C6_BetaUnavailable ==
    BetaDone =>
        /\ (Len(combined.index) <= 1 \/ Flat(IndexReturns)) =>
              /\ "warning:could not calculate Beta" \in Range(ui)
              /\ "write:Beta" \notin Range(ui)
        /\ "write:Beta" \in Range(ui) => IsNum(beta)

\* the primary download raised or returned an empty frame
FetchFailed ==
    /\ response.outcome # "none"
    /\ response.outcome = "raise" \/ IsEmpty(response.frame)

\* C7 as stated: after a primary download that raises or is empty, an
\* error message is on the page, the run did not die on an exception, and
\* no chart is shown and no indicator column is computed.
C7_FailedFetchShowsError ==
    FetchFailed =>
        /\ Range(ui) \cap Errors # {}
        /\ pc # "crashed"
        /\ Range(ui) \cap Charts = {}
        /\ \A name \in Indicators : ~HasCol(data, name)
        /\ rsi = <<>> /\ cagr = NoCagr /\ beta = NA

\* the alignment has run
AlignDone == pc = "long_beta" \/ (BetaDone /\ "exception:KeyError" \notin Range(ui))

\* the timestamps both series have
Shared == Range(data.index) \cap Range(index_data.index)

At(df, name, t) ==
    Col(df, name)[CHOOSE i \in 1..Len(df.index) : df.index[i] = t]

\* C8: the aligned frame holds exactly the timestamps present in both close
\* series with a close in both, in ascending order, with the two closes of
\* that timestamp; so both columns have that many rows.
C8_AlignIsIntersection ==
    AlignDone =>
        LET keep == {t \in Shared : ~isna(At(data, "Close", t))
                                    /\ ~isna(At(index_data, "Close", t))}
        IN  /\ combined.index = Ascending(keep)
            /\ Len(Col(combined, "Stock")) = Cardinality(keep)
            /\ Len(Col(combined, "Index")) = Cardinality(keep)
            /\ \A r \in 1..Len(combined.index) :
                  /\ Col(combined, "Stock")[r]
                        = At(data, "Close", combined.index[r])
                  /\ Col(combined, "Index")[r]
                        = At(index_data, "Close", combined.index[r])

\* two series that share three timestamps, each with timestamps of its own
C8_Witness ==
    /\ AlignDone
    /\ Len(combined.index) = 3
    /\ Range(data.index) \ Shared # {}
    /\ Range(index_data.index) \ Shared # {}

\* the run holds a fetched frame
Fetched == response.outcome = "ok" /\ pc \notin {"idle", "Intraday", "Short Term", "Long Term"}

C10_BenchmarkFailureIsWarning ==
    (analysis_type = "Long Term" /\ CagrDone /\ pc # "long_align"
     /\ IsEmpty(index_data)) =>
        /\ pc # "crashed"
        /\ pc \in {"finish", "done"} =>
              "warning:could not calculate Beta" \in Range(ui)
        /\ "pyplot:Close,SMA_50,SMA_100,SMA_200" \in Range(ui)
        /\ Range(ui) \cap {"write:CAGR",
                           "warning:insufficient duration for CAGR"} # {}

====
